---- MODULE Spec2Model ----
(***************************************************************************)
(* Collector credit ledger and credit-purchase settlement of Kawadiwala.   *)
(*                                                                         *)
(* The database rows (CollectorCreditAccount, CreditPurchase,              *)
(* CreditTransaction) are the shared state.  Every request handler works   *)
(* on in-memory model instances it loaded earlier and writes them back     *)
(* with Model.save(), which updates every column of the row.  The project  *)
(* runs Django in autocommit mode (settings.py sets no ATOMIC_REQUESTS and *)
(* the ledger methods open no transaction.atomic block), so each ORM call  *)
(* is one step and handlers interleave between ORM calls.                  *)
(*                                                                         *)
(* Money is a Decimal with two fractional digits; it is modelled as an     *)
(* integer number of paisa.  Timestamps are readings of a logical clock;   *)
(* 0 is NULL.                                                              *)
(***************************************************************************)
EXTENDS Integers, Sequences, FiniteSets, TLC

VARIABLES account, purchases, ledger, req, now, nreq,
          rate, pickup, txn, gateway_log, last

\* The rows of pickup settlement: the waste category's rate, the pickup
\* request, its Transaction, the PaymentGatewayLog rows, and the last request
\* handled with the response it got.
settle == <<rate, pickup, txn, gateway_log, last>>

vars == <<account, purchases, ledger, req, now, nreq,
          rate, pickup, txn, gateway_log, last>>

(* ------------------------------ bounds --------------------------------- *)

NumHandlers == 2
MaxRequests == 3
MaxPurchases == 2
RaceCallers == 3
MaxSettle == 6

Handlers == 1..NumHandlers

Rs(n) == n * 100

(* ------------------------------ data ----------------------------------- *)

\* Credit packages on sale: the Starter Pack of create_sample_packages.py and
\* a small promotional pack with a bonus.
Packages ==
    { [purchase_amount |-> Rs(1000), credit_amount |-> Rs(900), bonus_credits |-> Rs(0)],
      [purchase_amount |-> Rs(100),  credit_amount |-> Rs(80),  bonus_credits |-> Rs(20)] }

\* Amounts a caller asks deduct_credits to take.
DeductAmounts == { Rs(80), Rs(150) }

\* The methods initiate_credit_purchase accepts; only khalti is carried on,
\* and esewa stands for both methods the handler leaves pending.
PaymentMethods == { "khalti", "esewa" }

\* What the Khalti lookup can answer: an error dict, or a body with a status.
LookupResults == { "error", "Completed", "Pending" }

\* No row for the collector yet.
NoAccount ==
    [ exists |-> FALSE, current_balance |-> 0, total_purchased |-> 0,
      total_used |-> 0, is_active |-> TRUE, last_transaction_date |-> 0 ]

\* A CollectorCreditAccount row with the field defaults.
NewAccount(active) ==
    [ exists |-> TRUE, current_balance |-> 0, total_purchased |-> 0,
      total_used |-> 0, is_active |-> active, last_transaction_date |-> 0 ]

NoPurchase ==
    [ id |-> 0, amount_paid |-> 0, credits_received |-> 0, bonus_credits |-> 0,
      payment_method |-> "", payment_reference |-> 0,
      payment_status |-> "pending", completed_at |-> 0 ]

IdleReq ==
    [ kind |-> "none", pc |-> "idle", amount |-> 0, pidx |-> 0,
      self0 |-> NoAccount, self |-> NoAccount, balance_before |-> 0,
      cp |-> NoPurchase, verification |-> "none", total_amount |-> 0,
      ret |-> "none" ]

(* ------------------------- pure model methods -------------------------- *)

\* Slip: the is_active test is forgotten.
has_sufficient_balance_no_active(self, amount) ==
    self.current_balance >= amount

\* Slip: any positive balance is taken to cover the amount.
has_sufficient_balance_positive(self, amount) ==
    self.current_balance > 0 /\ self.is_active

has_sufficient_balance(self, amount) ==
    self.current_balance >= amount /\ self.is_active

\* Slip: the balance is raised instead of lowered.
deduct_in_memory_sign(self, amount, t) ==
    [ balance_before |-> self.current_balance,
      self |-> [ self EXCEPT !.current_balance = @ + amount,
                             !.total_used = @ + amount,
                             !.last_transaction_date = t ] ]

\* Slip: the lifetime usage is lowered by the debit.
deduct_in_memory_used_down(self, amount, t) ==
    [ balance_before |-> self.current_balance,
      self |-> [ self EXCEPT !.current_balance = @ - amount,
                             !.total_used = @ - amount,
                             !.last_transaction_date = t ] ]

\* The in-memory part of deduct_credits: the instance after the three
\* assignments and the balance_before it captured.
deduct_in_memory(self, amount, t) ==
    [ balance_before |-> self.current_balance,
      self |-> [ self EXCEPT !.current_balance = @ - amount,
                             !.total_used = @ + amount,
                             !.last_transaction_date = t ] ]

\* Slip: balance_before is read after the balance was raised.
add_in_memory_late(self, amount) ==
    [ balance_before |-> self.current_balance + amount,
      self |-> [ self EXCEPT !.current_balance = @ + amount,
                             !.total_purchased = @ + amount ] ]

\* Slip: the lifetime purchases are not raised.
add_in_memory_no_total(self, amount) ==
    [ balance_before |-> self.current_balance,
      self |-> [ self EXCEPT !.current_balance = @ + amount ] ]

\* The in-memory part of add_credits.
add_in_memory(self, amount) ==
    [ balance_before |-> self.current_balance,
      self |-> [ self EXCEPT !.current_balance = @ + amount,
                             !.total_purchased = @ + amount ] ]

\* The CreditTransaction row either method creates.
CreditTransaction(type, amount, balance_before, self, purchase_id) ==
    [ transaction_type |-> type, amount |-> amount,
      balance_before |-> balance_before,
      balance_after |-> self.current_balance,
      credit_purchase |-> purchase_id ]

\* Slip: the bonus is left out.
total_credits_no_bonus(cp) == cp.credits_received

total_credits(cp) == cp.credits_received + cp.bonus_credits

\* Slip: only the absence of an error is tested.
VerificationOk_no_status(v) == v # "error"

\* The branch condition of khalti_credit_callback on the lookup's answer.
VerificationOk(v) == v # "error" /\ v = "Completed"

\* Slip: the purchase is saved without the new status.
Failed_still_pending(cp) == cp

\* credit_purchase.payment_status = 'failed', as both failure branches set it.
Failed(cp) == [ cp EXCEPT !.payment_status = "failed" ]

\* The message khalti_credit_callback shows for complete_purchase's return.
CallbackMessage(success) ==
    IF success = "True" THEN "Credit purchase successful"
    ELSE "Credit purchase processing failed"

\* Slip: only a failed purchase is refused.
MayComplete_not_failed(cp) == cp.payment_status # "failed"

\* complete_purchase only acts on a pending purchase.
MayComplete(cp) == cp.payment_status = "pending"

RECURSIVE SignedSum(_)
SignedSum(rows) ==
    IF rows = <<>> THEN 0
    ELSE LET r == rows[Len(rows)]
         IN  SignedSum(SubSeq(rows, 1, Len(rows) - 1))
             + (IF r.transaction_type = "credit" THEN r.amount ELSE 0 - r.amount)

(* ------------------------- pickup settlement --------------------------- *)

\* Weights are Decimals with two fractional digits, modelled in hundredths of
\* a kilogram; rates and stored prices are in paisa.  The product of a weight
\* and a rate is an exact Decimal with four fractional digits, modelled in
\* hundredths of a paisa; an instance in memory holds its prices and its
\* amount on that scale until the row is written.

\* Weights a form submits: 0.25, 0.44 and 0.50 kg.
Weights == { 25, 44, 50 }

\* Rates per kg a category is given: 0.34 and 0.50.
Rates == { 34, 50 }

\* Reference ids the gateways hand out (eSewa refId, Khalti pidx).
GatewayRefs == { 1, 2 }

\* NULL in a nullable price column.
Null == -1

NoPickup ==
    [ exists |-> FALSE, collector |-> FALSE, status |-> "pending",
      estimated_weight_kg |-> 0, actual_weight_kg |-> 0,
      estimated_price |-> 0, actual_price |-> Null, completed_at |-> 0 ]

NoTransaction ==
    [ exists |-> FALSE, amount |-> 0, collector_commission |-> 0,
      payment_method |-> "cash", payment_status |-> "pending",
      is_paid |-> FALSE, gateway_transaction_id |-> 0,
      gateway_response |-> [ amt |-> 0, refId |-> 0 ],
      payment_initiated_at |-> 0, payment_completed_at |-> 0 ]

NoRequest == [ handler |-> "none", amt |-> 0, ref |-> 0, result |-> "none" ]

\* No pickup has been requested yet.
NoSettlement ==
    /\ rate = 50
    /\ pickup = NoPickup
    /\ txn = NoTransaction
    /\ gateway_log = <<>>
    /\ last = NoRequest

\* Slip: the digits beyond the quantum are cut off.
RoundHalfEven_truncate(n, d) == n \div d

\* Decimal rounding of n/d to an integer under ROUND_HALF_EVEN, the default of
\* the decimal context: quantize() and the DecimalField column both use it.
RoundHalfEven(n, d) ==
    LET q == n \div d
        r == n % d
    IN  IF 2 * r < d THEN q
        ELSE IF 2 * r > d THEN q + 1
        ELSE IF q % 2 = 0 THEN q ELSE q + 1

\* A four-digit Decimal as a two-digit column keeps it.
Stored(x) == RoundHalfEven(x, 100)

\* A two-digit column value read back into memory.
Loaded(x) == x * 100

\* (amount * Decimal('0.10')).quantize(Decimal('0.01')), in paisa.
Commission(amount) == RoundHalfEven(amount, 1000)

\* A truthy Decimal: neither None nor zero.
Truthy(x) == x # Null /\ x # 0

\* The model instance a query returns for a PickupRequest row.
PickupInstance(row) ==
    [ row EXCEPT !.estimated_price = Loaded(@),
                 !.actual_price = IF @ = Null THEN Null ELSE Loaded(@) ]

\* The row super().save() writes for a PickupRequest instance.
PickupRow(self) ==
    [ self EXCEPT !.estimated_price = Stored(@),
                  !.actual_price = IF @ = Null THEN Null ELSE Stored(@) ]

\* PickupRequest.save() on an instance, with the category's rate r at time t.
pickup_save(self, r, t) ==
    [ self EXCEPT
        !.estimated_price = self.estimated_weight_kg * r,
        !.actual_price = IF self.actual_weight_kg # 0
                         THEN self.actual_weight_kg * r ELSE @,
        !.completed_at = IF self.status = "completed" /\ @ = 0 THEN t ELSE @ ]

\* The model instance a query returns for a Transaction row.
TransactionInstance(row) == [ row EXCEPT !.amount = Loaded(@) ]

\* The row super().save() writes for a Transaction instance.
TransactionRow(self) == [ self EXCEPT !.amount = Stored(@) ]

\* Transaction.save() on an instance.
transaction_save(self) ==
    [ self EXCEPT !.collector_commission = Commission(self.amount) ]

\* The amount a gateway reports as paid: the expected one, or another.
GatewayAmount(amount, differs) ==
    IF differs THEN amount + Rs(1) ELSE amount

(* ------------------------------- Init ---------------------------------- *)

\* The collector either has no credit account yet, or a fresh one made by
\* get_or_create in the buy_credits view, which staff may have deactivated.
Init ==
    /\ account \in { NoAccount, NewAccount(TRUE), NewAccount(FALSE) }
    /\ purchases = <<>>
    /\ ledger = <<>>
    /\ req = [ h \in Handlers |-> IdleReq ]
    /\ now = 1
    /\ nreq = 0
    /\ NoSettlement

Free(h) == req[h].pc \in { "idle", "done" }

Begin(h) == Free(h) /\ nreq < MaxRequests

(* --------------------------- deduct_credits ---------------------------- *)

\* A caller fetches the collector's account row and is about to call
\* deduct_credits(amount, pickup).
LoadAccountForDeduct(h, amount) ==
    /\ Begin(h)
    /\ account.exists
    /\ req' = [ req EXCEPT ![h] =
                  [ IdleReq EXCEPT !.kind = "deduct", !.pc = "deduct_loaded",
                                   !.amount = amount,
                                   !.self0 = account, !.self = account ] ]
    /\ nreq' = nreq + 1
    /\ UNCHANGED <<account, purchases, ledger, now>>
    /\ UNCHANGED settle

\* deduct_credits up to and including self.save(), or its refusal.
DeductCredits(h) ==
    /\ req[h].pc = "deduct_loaded"
    /\ IF has_sufficient_balance(req[h].self, req[h].amount)
       THEN LET m == deduct_in_memory(req[h].self, req[h].amount, now)
            IN  /\ account' = m.self
                /\ now' = now + 1
                /\ req' = [ req EXCEPT ![h].pc = "deduct_saved",
                                       ![h].self = m.self,
                                       ![h].balance_before = m.balance_before ]
       ELSE /\ req' = [ req EXCEPT ![h].pc = "done", ![h].ret = "False" ]
            /\ UNCHANGED <<account, now>>
    /\ UNCHANGED <<purchases, ledger, nreq>>
    /\ UNCHANGED settle

\* CreditTransaction.objects.create(... 'debit' ...) and return True.
DeductCreateRow(h) ==
    /\ req[h].pc = "deduct_saved"
    /\ ledger' = Append(ledger,
                        CreditTransaction("debit", req[h].amount,
                                          req[h].balance_before, req[h].self, 0))
    /\ req' = [ req EXCEPT ![h].pc = "done", ![h].ret = "True" ]
    /\ UNCHANGED <<account, purchases, now, nreq>>
    /\ UNCHANGED settle

(* ----------------------- initiate_credit_purchase ---------------------- *)

\* CreditPurchase.objects.create(... payment_status='pending') for the chosen
\* package; only the khalti method goes on to the gateway.
InitiateCreditPurchase(h, pkg, method) ==
    /\ Begin(h)
    /\ Len(purchases) < MaxPurchases
    /\ LET row == [ NoPurchase EXCEPT !.id = Len(purchases) + 1,
                                      !.amount_paid = pkg.purchase_amount,
                                      !.credits_received = pkg.credit_amount,
                                      !.bonus_credits = pkg.bonus_credits,
                                      !.payment_method = method ]
       IN  /\ purchases' = Append(purchases, row)
           /\ req' = [ req EXCEPT ![h] =
                         [ IdleReq EXCEPT !.kind = "initiate",
                                          !.pc = IF method = "khalti"
                                                 THEN "init_created" ELSE "done",
                                          !.cp = row ] ]
    /\ nreq' = nreq + 1
    /\ UNCHANGED <<account, ledger, now>>
    /\ UNCHANGED settle

\* The answer of initiate_khalti_payment: the pidx is stored, or the purchase
\* is marked failed.  The gateway's pidx is modelled by the purchase id.
InitiateKhaltiResult(h, ok) ==
    /\ req[h].pc = "init_created"
    /\ LET cp == IF ok THEN [ req[h].cp EXCEPT !.payment_reference = req[h].cp.id ]
                       ELSE Failed(req[h].cp)
       IN  /\ purchases' = [ purchases EXCEPT ![cp.id] = cp ]
           /\ req' = [ req EXCEPT ![h].pc = "done", ![h].cp = cp ]
    /\ UNCHANGED <<account, ledger, now, nreq>>
    /\ UNCHANGED settle

(* ------------------------ khalti_credit_callback ----------------------- *)

\* CreditPurchase.objects.get(payment_reference=pidx, payment_method='khalti')
FindPurchase(pidx) ==
    { i \in 1..Len(purchases) :
        /\ purchases[i].payment_reference = pidx
        /\ purchases[i].payment_method = "khalti" }

\* The handler's start: the purchase is fetched, or the request ends with
\* 'Credit purchase not found.'
CallbackGet(h, pidx) ==
    IF FindPurchase(pidx) # {}
    THEN req' = [ req EXCEPT ![h] =
                    [ IdleReq EXCEPT !.kind = "callback", !.pc = "cb_found",
                                     !.pidx = pidx,
                                     !.cp = purchases[CHOOSE i \in FindPurchase(pidx) : TRUE] ] ]
    ELSE req' = [ req EXCEPT ![h] =
                    [ IdleReq EXCEPT !.kind = "callback", !.pc = "done",
                                     !.pidx = pidx ] ]

KhaltiCreditCallback(h, pidx) ==
    /\ Begin(h)
    /\ CallbackGet(h, pidx)
    /\ nreq' = nreq + 1
    /\ UNCHANGED <<account, purchases, ledger, now>>
    /\ UNCHANGED settle

\* khalti_payment_verify: a pidx of a credit purchase is redirected to the
\* credit callback; any other pidx ends the request.
KhaltiPaymentVerify(h, pidx) ==
    /\ Begin(h)
    /\ req' = [ req EXCEPT ![h] =
                  [ IdleReq EXCEPT !.kind = "verify", !.pidx = pidx,
                                   !.pc = IF FindPurchase(pidx) # {}
                                          THEN "redirected" ELSE "done" ] ]
    /\ nreq' = nreq + 1
    /\ UNCHANGED <<account, purchases, ledger, now>>
    /\ UNCHANGED settle

\* The browser follows the redirect into khalti_credit_callback.
FollowRedirect(h) ==
    /\ req[h].pc = "redirected"
    /\ CallbackGet(h, req[h].pidx)
    /\ UNCHANGED <<account, purchases, ledger, now, nreq>>
    /\ UNCHANGED settle

\* The total_amount (paisa) of the lookup's answer: none in an error dict,
\* else what the payer paid, which is the purchase's price or one rupee less.
LookupTotal(cp, v, short) ==
    IF v = "error" THEN 0
    ELSE IF short THEN cp.amount_paid - Rs(1) ELSE cp.amount_paid

\* PaymentGatewayService.verify_khalti_payment returns; a total_amount other
\* than the expected one is only logged.  Only a completed payment is taken
\* to report a total that falls short.
LookupReturns(h, v, short) ==
    /\ req[h].pc = "cb_found"
    /\ short => v = "Completed"
    /\ req' = [ req EXCEPT ![h].pc = "cb_verified", ![h].verification = v,
                           ![h].total_amount = LookupTotal(req[h].cp, v, short) ]
    /\ UNCHANGED <<account, purchases, ledger, now, nreq>>
    /\ UNCHANGED settle

\* The else branch: payment_status = 'failed'; save().
CallbackFailed(h) ==
    /\ req[h].pc = "cb_verified"
    /\ ~VerificationOk(req[h].verification)
    /\ LET cp == Failed(req[h].cp)
       IN  /\ purchases' = [ purchases EXCEPT ![cp.id] = cp ]
           /\ req' = [ req EXCEPT ![h].pc = "done", ![h].cp = cp ]
    /\ UNCHANGED <<account, ledger, now, nreq>>
    /\ UNCHANGED settle

(* -------------------------- complete_purchase -------------------------- *)

\* complete_purchase up to get_or_create of the account, or its refusal.
CompletePurchase(h) ==
    /\ req[h].pc = "cb_verified"
    /\ VerificationOk(req[h].verification)
    /\ IF MayComplete(req[h].cp)
       THEN LET a == IF account.exists THEN account ELSE NewAccount(TRUE)
            IN  /\ account' = a
                /\ req' = [ req EXCEPT ![h].pc = "add_loaded",
                                       ![h].self0 = a, ![h].self = a,
                                       ![h].amount = total_credits(req[h].cp) ]
       ELSE /\ req' = [ req EXCEPT ![h].pc = "done", ![h].ret = "False" ]
            /\ UNCHANGED account
    /\ UNCHANGED <<purchases, ledger, now, nreq>>
    /\ UNCHANGED settle

\* add_credits up to and including self.save().
AddCreditsSave(h) ==
    /\ req[h].pc = "add_loaded"
    /\ LET m == add_in_memory(req[h].self, req[h].amount)
       IN  /\ account' = m.self
           /\ req' = [ req EXCEPT ![h].pc = "add_saved",
                                  ![h].self = m.self,
                                  ![h].balance_before = m.balance_before ]
    /\ UNCHANGED <<purchases, ledger, now, nreq>>
    /\ UNCHANGED settle

\* CreditTransaction.objects.create(... 'credit' ...)
AddCreditsCreateRow(h) ==
    /\ req[h].pc = "add_saved"
    /\ ledger' = Append(ledger,
                        CreditTransaction("credit", req[h].amount,
                                          req[h].balance_before, req[h].self,
                                          req[h].cp.id))
    /\ req' = [ req EXCEPT ![h].pc = "add_created" ]
    /\ UNCHANGED <<account, purchases, now, nreq>>
    /\ UNCHANGED settle

\* payment_status = 'completed'; completed_at = now; save(); return True.
CompletePurchaseSave(h) ==
    /\ req[h].pc = "add_created"
    /\ LET cp == [ req[h].cp EXCEPT !.payment_status = "completed",
                                    !.completed_at = now ]
       IN  /\ purchases' = [ purchases EXCEPT ![cp.id] = cp ]
           /\ req' = [ req EXCEPT ![h].pc = "done", ![h].cp = cp,
                                  ![h].ret = "True" ]
    /\ now' = now + 1
    /\ UNCHANGED <<account, ledger, nreq>>
    /\ UNCHANGED settle

(* ------------------------------ failure -------------------------------- *)

\* The handler dies (process killed, database error raised) after one write
\* and before the next; nothing is rolled back in autocommit mode.
Crash(h) ==
    /\ req[h].pc \in { "deduct_saved", "add_saved", "add_created", "init_created" }
    /\ req' = [ req EXCEPT ![h].pc = "crashed" ]
    /\ UNCHANGED <<account, purchases, ledger, now, nreq>>
    /\ UNCHANGED settle

(* --------------------------- specifications ---------------------------- *)

Arrive(h) ==
    \/ \E a \in DeductAmounts : LoadAccountForDeduct(h, a)
    \/ \E pkg \in Packages, m \in PaymentMethods : InitiateCreditPurchase(h, pkg, m)
    \/ \E pidx \in 1..MaxPurchases : KhaltiCreditCallback(h, pidx)
    \/ \E pidx \in 1..MaxPurchases : KhaltiPaymentVerify(h, pidx)

Step(h) ==
    \/ DeductCredits(h)
    \/ DeductCreateRow(h)
    \/ \E ok \in BOOLEAN : InitiateKhaltiResult(h, ok)
    \/ FollowRedirect(h)
    \/ \E v \in LookupResults, short \in BOOLEAN : LookupReturns(h, v, short)
    \/ CallbackFailed(h)
    \/ CompletePurchase(h)
    \/ AddCreditsSave(h)
    \/ AddCreditsCreateRow(h)
    \/ CompletePurchaseSave(h)

\* Handlers run concurrently, one per inbound request, interleaving between
\* their ORM calls.
Next == \E h \in Handlers : Arrive(h) \/ Step(h)

Spec == Init /\ [][Next]_vars

InFlight(h) == req[h].pc \notin { "idle", "done", "crashed" }

Quiet == \A h \in DOMAIN req : ~InFlight(h)

\* One request at a time, each running to its end.
SeqArrive(h) ==
    \/ Quiet /\ \E a \in DeductAmounts : LoadAccountForDeduct(h, a)
    \/ Quiet /\ \E pkg \in Packages, m \in PaymentMethods : InitiateCreditPurchase(h, pkg, m)
    \/ Quiet /\ \E pidx \in 1..MaxPurchases : KhaltiCreditCallback(h, pidx)
    \/ Quiet /\ \E pidx \in 1..MaxPurchases : KhaltiPaymentVerify(h, pidx)

SeqNext == \E h \in Handlers : SeqArrive(h) \/ Step(h)

SeqSpec == Init /\ [][SeqNext]_vars

\* One request at a time; a request may die part-way.
CrashNext == \E h \in Handlers : SeqArrive(h) \/ Step(h) \/ Crash(h)

CrashSpec == Init /\ [][CrashNext]_vars

\* The account of the concurrency contract: a balance of 100 from one
\* completed purchase of the promotional pack, and callers that each run
\* deduct_credits(80) on it, overlapping freely.
RaceInit ==
    /\ account = [ NewAccount(TRUE) EXCEPT !.current_balance = Rs(100),
                                           !.total_purchased = Rs(100) ]
    /\ purchases = << [ NoPurchase EXCEPT !.id = 1, !.amount_paid = Rs(100),
                                          !.credits_received = Rs(80),
                                          !.bonus_credits = Rs(20),
                                          !.payment_method = "khalti",
                                          !.payment_reference = 1,
                                          !.payment_status = "completed",
                                          !.completed_at = 1 ] >>
    /\ ledger = << [ transaction_type |-> "credit", amount |-> Rs(100),
                     balance_before |-> 0, balance_after |-> Rs(100),
                     credit_purchase |-> 1 ] >>
    /\ req = [ h \in 1..RaceCallers |-> IdleReq ]
    /\ now = 2
    /\ nreq = 0
    /\ NoSettlement

RaceNext ==
    \E h \in 1..RaceCallers :
        \/ req[h].pc = "idle" /\ LoadAccountForDeduct(h, Rs(80))
        \/ DeductCredits(h)
        \/ DeductCreateRow(h)

RaceSpec == RaceInit /\ [][RaceNext]_vars

(* ---------------------- pickup settlement: handlers -------------------- *)

\* One request is handled from start to end at the next clock reading; the
\* response it gets is recorded.
Handled(handler, amt, ref, result) ==
    /\ nreq < MaxSettle
    /\ nreq' = nreq + 1
    /\ now' = now + 1
    /\ last' = [ handler |-> handler, amt |-> amt, ref |-> ref, result |-> result ]
    /\ UNCHANGED <<account, purchases, ledger, req>>

\* request_pickup: the customer's form is saved as a new pending pickup.
RequestPickup(w) ==
    /\ ~pickup.exists
    /\ pickup' = PickupRow(pickup_save(
                     [ NoPickup EXCEPT !.exists = TRUE, !.estimated_weight_kg = w ],
                     rate, now))
    /\ Handled("request_pickup", 0, 0, "Pickup request submitted successfully!")
    /\ UNCHANGED <<rate, txn, gateway_log>>

\* assign_pickup: a collector takes a pending pickup.
AssignPickup ==
    /\ pickup.exists
    /\ pickup.status = "pending"
    /\ pickup' = PickupRow(pickup_save(
                     [ PickupInstance(pickup) EXCEPT !.collector = TRUE,
                                                     !.status = "assigned" ],
                     rate, now))
    /\ Handled("assign_pickup", 0, 0, "assigned")
    /\ UNCHANGED <<rate, txn, gateway_log>>

\* update_pickup: the assigned collector posts CollectorUpdateForm (w = 0 is
\* a blank weight); form.save() writes the pickup and, when it is completed
\* with a weight, get_or_create makes the Transaction with the field defaults.
UpdatePickup(status, w) ==
    /\ pickup.exists
    /\ pickup.collector
    /\ LET self == pickup_save(
                       [ PickupInstance(pickup) EXCEPT !.status = status,
                                                       !.actual_weight_kg = w ],
                       rate, now)
       IN  /\ pickup' = PickupRow(self)
           /\ txn' = IF status = "completed" /\ w # 0 /\ ~txn.exists
                     THEN TransactionRow(transaction_save(
                              [ NoTransaction EXCEPT !.exists = TRUE,
                                                     !.amount = self.actual_price ]))
                     ELSE txn
    /\ Handled("update_pickup", 0, 0, "Pickup updated successfully!")
    /\ UNCHANGED <<rate, gateway_log>>

\* admin_update_pickup_status: staff set a status; 'completed' needs a weight
\* above 0 (w = 0 is a missing one), prices the pickup, creates the
\* Transaction as paid cash when there is none, and then saves the pickup.
\* Creating the Transaction of a pickup without a collector raises, which
\* the handler catches before the pickup is saved.
AdminUpdatePickupStatus(new_status, w) ==
    /\ pickup.exists
    /\ IF new_status = "completed" /\ w = 0
       THEN /\ Handled("admin_update_pickup_status", 0, 0,
                       "Please enter a valid weight greater than 0")
            /\ UNCHANGED <<pickup, txn>>
       ELSE IF new_status = "completed" /\ ~txn.exists /\ ~pickup.collector
       THEN /\ Handled("admin_update_pickup_status", 0, 0, "error")
            /\ UNCHANGED <<pickup, txn>>
       ELSE LET loaded == PickupInstance(pickup)
                self == IF new_status = "completed"
                        THEN [ loaded EXCEPT !.status = new_status,
                                             !.actual_weight_kg = w,
                                             !.actual_price = w * rate ]
                        ELSE [ loaded EXCEPT !.status = new_status ]
                amount == IF Truthy(self.actual_price) THEN self.actual_price
                          ELSE IF Truthy(self.estimated_price)
                               THEN self.estimated_price ELSE 0
            IN  /\ txn' = IF new_status = "completed" /\ ~txn.exists
                          THEN TransactionRow(transaction_save(
                                   [ NoTransaction EXCEPT
                                       !.exists = TRUE,
                                       !.amount = amount,
                                       !.payment_method = "cash",
                                       !.payment_status = "completed",
                                       !.is_paid = TRUE ]))
                          ELSE txn
                /\ pickup' = PickupRow(pickup_save(self, rate, now))
                /\ Handled("admin_update_pickup_status", 0, 0, "status updated")
    /\ UNCHANGED <<rate, gateway_log>>

\* edit_category: staff give the waste category another rate.
EditCategory(r) ==
    /\ r # rate
    /\ rate' = r
    /\ Handled("edit_category", 0, 0, "updated successfully")
    /\ UNCHANGED <<pickup, txn, gateway_log>>

\* initiate_payment: the method is saved; eSewa then logs the request and
\* saves the Transaction as 'processing'; the Khalti call is made with the
\* wrong arguments and raises after the first save; other methods redirect.
InitiatePayment(method) ==
    /\ txn.exists
    /\ LET self == transaction_save(
                       [ TransactionInstance(txn) EXCEPT !.payment_method = method ])
       IN  IF method = "esewa"
           THEN /\ gateway_log' = Append(gateway_log,
                                         [ gateway_name |-> "esewa",
                                           amt |-> Stored(self.amount) ])
                /\ txn' = TransactionRow(transaction_save(
                              [ self EXCEPT !.payment_status = "processing",
                                            !.payment_initiated_at = now ]))
                /\ Handled("initiate_payment", 0, 0, "esewa_redirect")
           ELSE /\ txn' = TransactionRow(self)
                /\ Handled("initiate_payment", 0, 0,
                           IF method = "khalti" THEN "server error"
                           ELSE "payment_instructions")
                /\ UNCHANGED gateway_log
    /\ UNCHANGED <<rate, pickup>>

\* esewa_success with verify_payment: an eSewa Transaction is marked paid
\* with the gateway's answer stored; a Khalti one ends in the handler's
\* except branch; any other method is unsupported.  The amt of the callback
\* is stored but compared with nothing.
EsewaSuccess(differs, refId) ==
    /\ txn.exists
    /\ LET amt == GatewayAmount(txn.amount, differs)
       IN  IF txn.payment_method = "esewa"
           THEN /\ txn' = TransactionRow(transaction_save(
                              [ TransactionInstance(txn) EXCEPT
                                  !.payment_status = "completed",
                                  !.payment_completed_at = now,
                                  !.is_paid = TRUE,
                                  !.gateway_response = [ amt |-> amt, refId |-> refId ] ]))
                /\ Handled("esewa_success", amt, refId, "Payment completed successfully!")
           ELSE /\ Handled("esewa_success", amt, refId,
                           IF txn.payment_method = "khalti"
                           THEN "Payment processing error."
                           ELSE "Payment verification failed.")
                /\ UNCHANGED txn
    /\ UNCHANGED <<rate, pickup, gateway_log>>

\* The Django admin's change form of TransactionAdmin: staff record the
\* Khalti pidx of a payment as gateway_transaction_id and save.
AdminRecordGatewayId(pidx) ==
    /\ txn.exists
    /\ txn' = TransactionRow(transaction_save(
                  [ TransactionInstance(txn) EXCEPT !.payment_method = "khalti",
                                                    !.gateway_transaction_id = pidx ]))
    /\ Handled("admin_change_transaction", 0, pidx, "changed successfully")
    /\ UNCHANGED <<rate, pickup, gateway_log>>

\* khalti_payment_verify for a pidx that belongs to no credit purchase: a
\* Khalti Transaction with that gateway id is looked up at the gateway and,
\* on status 'Completed', saved as paid; its pickup is then saved as
\* completed.  A total_amount other than the Transaction's is only logged.
KhaltiVerifyTransaction(pidx, v, differs) ==
    /\ FindPurchase(pidx) = {}
    /\ IF txn.exists /\ txn.gateway_transaction_id = pidx
                     /\ txn.payment_method = "khalti"
       THEN LET total == IF v = "error" THEN 0
                         ELSE GatewayAmount(txn.amount, differs)
            IN  IF VerificationOk(v)
                THEN /\ txn' = TransactionRow(transaction_save(
                                   [ TransactionInstance(txn) EXCEPT
                                       !.payment_status = "completed",
                                       !.is_paid = TRUE,
                                       !.payment_completed_at = now ]))
                     /\ pickup' = PickupRow(pickup_save(
                                      [ PickupInstance(pickup) EXCEPT
                                          !.status = "completed" ],
                                      rate, now))
                     /\ Handled("khalti_payment_verify", total, pidx,
                                "Payment successful!")
                ELSE /\ Handled("khalti_payment_verify", total, pidx,
                                "Payment verification failed.")
                     /\ UNCHANGED <<pickup, txn>>
       ELSE /\ Handled("khalti_payment_verify", 0, pidx, "Payment record not found.")
            /\ UNCHANGED <<pickup, txn>>
    /\ UNCHANGED <<rate, gateway_log>>

\* admin_approve_transaction: staff approve or reject a Transaction.
AdminApproveTransaction(action) ==
    /\ txn.exists
    /\ LET loaded == TransactionInstance(txn)
       IN  txn' = TransactionRow(transaction_save(
                      IF action = "approve"
                      THEN [ loaded EXCEPT !.is_paid = TRUE,
                                           !.payment_status = "completed" ]
                      ELSE [ loaded EXCEPT !.payment_status = "failed" ]))
    /\ Handled("admin_approve_transaction", 0, 0, action)
    /\ UNCHANGED <<rate, pickup, gateway_log>>

\* The settlement starts with no pickup and the category at one of its rates.
SettleInit ==
    /\ account = NoAccount
    /\ purchases = <<>>
    /\ ledger = <<>>
    /\ req = [ h \in Handlers |-> IdleReq ]
    /\ now = 1
    /\ nreq = 0
    /\ rate \in Rates
    /\ pickup = NoPickup
    /\ txn = NoTransaction
    /\ gateway_log = <<>>
    /\ last = NoRequest

\* The requests of pickup settlement, handled one at a time.
SettleNext ==
    \/ \E w \in Weights : RequestPickup(w)
    \/ AssignPickup
    \/ \E st \in { "in_progress", "completed" }, w \in Weights \cup { 0 } :
          UpdatePickup(st, w)
    \/ \E st \in { "completed", "cancelled" }, w \in Weights \cup { 0 } :
          AdminUpdatePickupStatus(st, w)
    \/ \E r \in Rates : EditCategory(r)
    \/ \E m \in { "esewa", "khalti", "ime_pay" } : InitiatePayment(m)
    \/ \E differs \in BOOLEAN, refId \in GatewayRefs : EsewaSuccess(differs, refId)
    \/ \E pidx \in GatewayRefs : AdminRecordGatewayId(pidx)
    \/ \E pidx \in GatewayRefs, v \in LookupResults, differs \in BOOLEAN :
          KhaltiVerifyTransaction(pidx, v, differs)
    \/ \E a \in { "approve", "reject" } : AdminApproveTransaction(a)

SettleSpec == SettleInit /\ [][SettleNext]_vars

(* ---------------------------- khalti_callback -------------------------- *)

\* khalti_callback with verify_payment.  The Transaction is fetched by its
\* gateway id alone.  For status 'Completed' a Khalti Transaction is looked
\* up at the gateway (v is the lookup's answer) and the lookup's dictionary,
\* which has no 'success' key, is handed back: reading that key raises and
\* the handler ends in its except branch.  An eSewa Transaction is marked
\* paid with the callback's parameters stored; any other method is
\* unsupported.  last.amt is the total the lookup reported, 0 without one.
KhaltiCallback(pidx, status, v) ==
    /\ IF ~(txn.exists /\ txn.gateway_transaction_id = pidx)
       THEN /\ Handled("khalti_callback", 0, pidx, "Payment processing error.")
            /\ UNCHANGED txn
       ELSE IF status # "Completed"
       THEN /\ Handled("khalti_callback", 0, pidx, "Payment pending.")
            /\ UNCHANGED txn
       ELSE IF txn.payment_method = "khalti"
       THEN /\ Handled("khalti_callback",
                       IF v = "error" THEN 0 ELSE txn.amount,
                       pidx, "Payment processing error.")
            /\ UNCHANGED txn
       ELSE IF txn.payment_method = "esewa"
       THEN /\ txn' = TransactionRow(transaction_save(
                          [ TransactionInstance(txn) EXCEPT
                              !.payment_status = "completed",
                              !.payment_completed_at = now,
                              !.is_paid = TRUE,
                              !.gateway_response = [ amt |-> 0, refId |-> pidx ] ]))
            /\ Handled("khalti_callback", 0, pidx, "Payment completed successfully!")
       ELSE /\ Handled("khalti_callback", 0, pidx, "Payment verification failed.")
            /\ UNCHANGED txn
    /\ UNCHANGED <<rate, pickup, gateway_log>>

\* The settlement requests together with the Khalti callback of a payment.
CallbackNext ==
    \/ SettleNext
    \/ \E pidx \in GatewayRefs, status \in { "Completed", "Pending" },
          v \in { "error", "Completed" } : KhaltiCallback(pidx, status, v)

CallbackSpec == SettleInit /\ [][CallbackNext]_vars

(* ----------------------- pickup completion paths ----------------------- *)

\* admin_pickup_edit: staff post the edit form (w = 0 is a blank weight).
\* AdminPickupEditForm is imported from core.forms, which does not define
\* it, so what the form accepts is unknown: the requests enumerated are the
\* completions with a weight, which the handler's own branch provides for.
\* A completed pickup with a weight is priced and, when it has no
\* Transaction, one is created as paid cash; the pickup is saved last.
\* Creating the Transaction of a pickup without a collector raises, and the
\* request ends before the pickup is saved.
AdminPickupEdit(status, w) ==
    /\ pickup.exists
    /\ IF status = "completed" /\ w # 0 /\ ~txn.exists /\ ~pickup.collector
       THEN /\ Handled("admin_pickup_edit", 0, 0, "server error")
            /\ UNCHANGED <<pickup, txn>>
       ELSE LET loaded == [ PickupInstance(pickup) EXCEPT !.status = status,
                                                          !.actual_weight_kg = w ]
                self == IF status = "completed" /\ w # 0
                        THEN [ loaded EXCEPT !.actual_price = w * rate ]
                        ELSE loaded
            IN  /\ txn' = IF status = "completed" /\ w # 0 /\ ~txn.exists
                          THEN TransactionRow(transaction_save(
                                   [ NoTransaction EXCEPT
                                       !.exists = TRUE,
                                       !.amount = self.actual_price,
                                       !.payment_method = "cash",
                                       !.payment_status = "completed",
                                       !.is_paid = TRUE ]))
                          ELSE txn
                /\ pickup' = PickupRow(pickup_save(self, rate, now))
                /\ Handled("admin_pickup_edit", 0, 0, "updated successfully")
    /\ UNCHANGED <<rate, gateway_log>>

\* admin_bulk_update_pickups: QuerySet.update() writes the named columns of
\* the selected pickup and never calls PickupRequest.save().
AdminBulkUpdatePickups(action) ==
    /\ pickup.exists
    /\ pickup' = IF action = "mark_completed"
                 THEN [ pickup EXCEPT !.status = "completed" ]
                 ELSE IF action = "mark_cancelled"
                 THEN [ pickup EXCEPT !.status = "cancelled" ]
                 ELSE [ pickup EXCEPT !.collector = FALSE, !.status = "pending" ]
    /\ Handled("admin_bulk_update_pickups", 0, 0, action)
    /\ UNCHANGED <<rate, txn, gateway_log>>

\* cancel_pickup: the customer cancels a pickup that is neither completed
\* nor cancelled.
CancelPickup ==
    /\ pickup.exists
    /\ pickup.status \notin { "completed", "cancelled" }
    /\ pickup' = PickupRow(pickup_save(
                     [ PickupInstance(pickup) EXCEPT !.status = "cancelled" ],
                     rate, now))
    /\ Handled("cancel_pickup", 0, 0, "cancelled")
    /\ UNCHANGED <<rate, txn, gateway_log>>

\* The requests that create, complete and edit a pickup, one at a time.
PickupNext ==
    \/ \E w \in Weights : RequestPickup(w)
    \/ AssignPickup
    \/ \E st \in { "in_progress", "completed" }, w \in Weights \cup { 0 } :
          UpdatePickup(st, w)
    \/ \E st \in { "completed", "cancelled" }, w \in Weights \cup { 0 } :
          AdminUpdatePickupStatus(st, w)
    \/ \E w \in Weights : AdminPickupEdit("completed", w)
    \/ \E a \in { "mark_completed", "mark_cancelled", "unassign" } :
          AdminBulkUpdatePickups(a)
    \/ CancelPickup
    \/ \E r \in Rates : EditCategory(r)

PickupSpec == SettleInit /\ [][PickupNext]_vars

\* update_pickup ends after form.save() and before get_or_create: the
\* process is killed, or the database refuses the statement.  The pickup's
\* save is already committed.
UpdatePickupStops(w) ==
    /\ pickup.exists
    /\ pickup.collector
    /\ ~txn.exists
    /\ pickup' = PickupRow(pickup_save(
                     [ PickupInstance(pickup) EXCEPT !.status = "completed",
                                                     !.actual_weight_kg = w ],
                     rate, now))
    /\ Handled("update_pickup", 0, 0, "stopped")
    /\ UNCHANGED <<rate, txn, gateway_log>>

\* admin_update_pickup_status ends after the atomic block that creates the
\* Transaction and before pickup.save().
AdminUpdatePickupStatusStops(w) ==
    /\ pickup.exists
    /\ pickup.collector
    /\ ~txn.exists
    /\ txn' = TransactionRow(transaction_save(
                  [ NoTransaction EXCEPT !.exists = TRUE,
                                         !.amount = w * rate,
                                         !.payment_method = "cash",
                                         !.payment_status = "completed",
                                         !.is_paid = TRUE ]))
    /\ Handled("admin_update_pickup_status", 0, 0, "stopped")
    /\ UNCHANGED <<rate, pickup, gateway_log>>

\* The completion paths with a handler that may end between its writes.
PickupStopNext ==
    \/ PickupNext
    \/ \E w \in Weights : UpdatePickupStops(w)
    \/ \E w \in Weights : AdminUpdatePickupStatusStops(w)

PickupStopSpec == SettleInit /\ [][PickupStopNext]_vars

(* ------------------------------- claims -------------------------------- *)

Succeeded == { h \in DOMAIN req : req[h].ret = "True" }

\* C1: with a balance of 100 and callers running deduct_credits(80)
\* concurrently on the same row, at most one call returns True and the
\* balance never drops below 0.
C1_AtMostOneDebitSucceeds ==
    /\ Cardinality(Succeeded) <= 1
    /\ account.current_balance >= 0

CreditRowsOf(pid) ==
    { i \in 1..Len(ledger) :
        /\ ledger[i].transaction_type = "credit"
        /\ ledger[i].credit_purchase = pid }

\* C2: however callback deliveries for one purchase interleave, the purchase
\* is granted exactly once: never more than one 'credit' row for it, and one
\* once it is completed.
C2_ExactlyOneGrant ==
    \A pid \in 1..Len(purchases) :
        /\ Cardinality(CreditRowsOf(pid)) <= 1
        /\ purchases[pid].payment_status = "completed"
              => Cardinality(CreditRowsOf(pid)) = 1

\* C3: complete_purchase called on a purchase that is already completed
\* returns False and changes neither the account, nor the ledger, nor the
\* purchase; so a purchase is credited at most once.
C3_SecondCompleteIsNoOp ==
    /\ [](\A pid \in 1..Len(purchases) : Cardinality(CreditRowsOf(pid)) <= 1)
    /\ [][\A h \in Handlers :
            ( /\ req[h].pc = "cb_verified"
              /\ req[h].verification = "Completed"
              /\ purchases[req[h].cp.id].payment_status = "completed"
              /\ req'[h] # req[h] )
            => ( /\ req'[h].pc = "done"
                 /\ req'[h].ret = "False"
                 /\ account' = account
                 /\ ledger' = ledger
                 /\ purchases' = purchases )]_vars

C3_Witness ==
    \E h \in Handlers :
        /\ req[h].kind = "callback"
        /\ req[h].pc = "done"
        /\ req[h].ret = "False"
        /\ req[h].verification = "Completed"
        /\ purchases[req[h].cp.id].payment_status = "completed"
        /\ purchases[req[h].cp.id].completed_at > 0
        /\ Cardinality(CreditRowsOf(req[h].cp.id)) = 1
        /\ account.current_balance = total_credits(req[h].cp)

\* C4: a purchase that has reached 'completed' or 'failed' never changes
\* payment_status again.
C4_TerminalStatusStays ==
    [][\A i \in 1..Len(purchases) :
          purchases[i].payment_status \in { "completed", "failed" }
              => purchases'[i].payment_status = purchases[i].payment_status]_vars

\* C5: after every sequence of completed add_credits and deduct_credits
\* calls, the signed sum of the account's ledger rows is current_balance.
C5_LedgerReplaysBalance ==
    Quiet => SignedSum(ledger) = account.current_balance

C5_Witness ==
    /\ Quiet
    /\ \E i, j \in 1..Len(ledger) :
          /\ ledger[i].transaction_type = "credit"
          /\ ledger[j].transaction_type = "debit"
    /\ account.current_balance > 0

\* C6: every ledger row has balance_after - balance_before = +amount for a
\* 'credit' and -amount for a 'debit'.
C6_RowDelta ==
    \A i \in 1..Len(ledger) :
        ledger[i].balance_after - ledger[i].balance_before =
            IF ledger[i].transaction_type = "credit"
            THEN ledger[i].amount ELSE 0 - ledger[i].amount

C6_Witness ==
    \E i, j \in 1..Len(ledger) :
        /\ ledger[i].transaction_type = "credit" /\ ledger[i].amount = Rs(900)
        /\ ledger[j].transaction_type = "debit" /\ ledger[j].amount = Rs(150)

\* C7: deduct_credits called on an account whose balance is below the amount,
\* or which is not active, returns False and leaves the account row and the
\* ledger as they were.
C7_RefusedDebitChangesNothing ==
    [][\A h \in Handlers :
          ( /\ req[h].pc = "deduct_loaded"
            /\ ( req[h].self.current_balance < req[h].amount
                 \/ ~req[h].self.is_active )
            /\ req'[h] # req[h] )
          => ( /\ req'[h].pc = "done"
               /\ req'[h].ret = "False"
               /\ account' = account
               /\ ledger' = ledger )]_vars

C7_Witness ==
    \E h \in Handlers :
        /\ req[h].kind = "deduct"
        /\ req[h].pc = "done"
        /\ req[h].ret = "False"
        /\ req[h].amount = Rs(80)
        /\ req[h].self.current_balance = Rs(100)
        /\ ~req[h].self.is_active
        /\ account = req[h].self

\* C8: when no call is in progress, also after a call died part-way, the
\* balance has not moved without its ledger row.
C8_AllOrNothing ==
    Quiet =>
        /\ account.current_balance - SignedSum(ledger) = 0
        /\ account.total_purchased =
              SignedSum(SelectSeq(ledger, LAMBDA r : r.transaction_type = "credit"))
        /\ account.total_used =
              0 - SignedSum(SelectSeq(ledger, LAMBDA r : r.transaction_type = "debit"))

\* C9: complete_purchase on a pending purchase raises current_balance and
\* total_purchased by credits_received + bonus_credits, appends one 'credit'
\* row linked to the purchase, and leaves the purchase completed and stamped.
C9_CompleteCreditsAccount ==
    /\ [](\A h \in Handlers : req[h].pc = "add_loaded" => account = req[h].self0)
    /\ [][\A h \in Handlers :
            ( req[h].pc = "cb_verified" /\ req[h].verification = "Completed"
              /\ req[h].cp.payment_status = "pending" /\ req'[h] # req[h] )
            => ( /\ req'[h].pc = "add_loaded"
                 /\ account'.exists
                 /\ account' = IF account.exists THEN account ELSE NewAccount(TRUE) )]_vars
    /\ [][\A h \in Handlers :
            ( req[h].pc = "add_created" /\ req'[h].pc = "done" )
            => LET cp == req[h].cp
                   t  == cp.credits_received + cp.bonus_credits
                   a0 == req[h].self0
               IN  /\ req'[h].ret = "True"
                   /\ account'.current_balance = a0.current_balance + t
                   /\ account'.total_purchased = a0.total_purchased + t
                   /\ account'.total_used = a0.total_used
                   /\ Len(ledger') >= 1
                   /\ ledger'[Len(ledger')] =
                        [ transaction_type |-> "credit", amount |-> t,
                          balance_before |-> a0.current_balance,
                          balance_after |-> a0.current_balance + t,
                          credit_purchase |-> cp.id ]
                   /\ Cardinality({ i \in 1..Len(ledger') :
                                      ledger'[i].credit_purchase = cp.id }) = 1
                   /\ purchases'[cp.id].payment_status = "completed"
                   /\ purchases'[cp.id].completed_at = now]_vars

C9_Witness ==
    \E h \in Handlers :
        /\ req[h].kind = "callback"
        /\ req[h].pc = "done"
        /\ req[h].ret = "True"
        /\ req[h].cp.credits_received = Rs(80)
        /\ req[h].cp.bonus_credits = Rs(20)
        /\ req[h].self0 = NewAccount(TRUE)
        /\ account.current_balance = Rs(100)
        /\ account.total_purchased = Rs(100)
        /\ Len(ledger) = 1
        /\ purchases[req[h].cp.id].payment_status = "completed"

\* C10: a 'credit' row is only appended by a handler whose Khalti lookup of
\* the purchase's payment_reference answered 'Completed'.
C10_CreditOnlyAfterVerification ==
    [][( /\ Len(ledger') = Len(ledger) + 1
         /\ ledger'[Len(ledger')].transaction_type = "credit" )
       => \E h \in Handlers :
            /\ req[h].pc = "add_saved"
            /\ req'[h].pc = "add_created"
            /\ req[h].verification = "Completed"
            /\ req[h].cp.id = ledger'[Len(ledger')].credit_purchase
            /\ req[h].cp.payment_reference = req[h].pidx
            /\ req[h].cp.payment_method = "khalti"]_vars

C10_Witness ==
    \E h \in Handlers :
        /\ req[h].pc = "add_created"
        /\ req[h].verification = "Completed"
        /\ Len(ledger) >= 1
        /\ ledger[Len(ledger)].transaction_type = "credit"
        /\ ledger[Len(ledger)].credit_purchase = req[h].cp.id

\* C11: when the lookup of a callback answers with an error or a status
\* other than 'Completed' while the purchase is pending, the purchase becomes
\* 'failed' and the account and the ledger stay as they were; the same holds
\* when initiate_credit_purchase gets no pidx from the Khalti initiation.
C11_FailedVerificationLeavesLedger ==
    [][\A h \in Handlers :
          /\ ( /\ req[h].pc = "cb_verified"
               /\ req[h].verification # "Completed"
               /\ purchases[req[h].cp.id].payment_status = "pending"
               /\ req'[h] # req[h] )
             => ( /\ purchases'[req[h].cp.id].payment_status = "failed"
                  /\ account' = account
                  /\ ledger' = ledger )
          /\ ( /\ req[h].pc = "init_created"
               /\ req'[h].pc = "done"
               /\ purchases'[req[h].cp.id].payment_reference = 0 )
             => ( /\ purchases'[req[h].cp.id].payment_status = "failed"
                  /\ account' = account
                  /\ ledger' = ledger )]_vars

C11_Witness ==
    \E h \in Handlers :
        /\ req[h].kind = "callback"
        /\ req[h].pc = "done"
        /\ req[h].verification = "Pending"
        /\ purchases[req[h].cp.id].payment_status = "failed"
        /\ account.exists
        /\ account.current_balance = 0
        /\ account.total_purchased = 0
        /\ ledger = <<>>

\* C13: a callback whose lookup reported a total_amount other than the
\* purchase's amount_paid never goes on to credit the account: it does not
\* save the raised balance, create the 'credit' row or return success.
C13_MismatchNeverCredits ==
    \A h \in Handlers :
        ( /\ req[h].kind = "callback"
          /\ req[h].verification # "none"
          /\ req[h].total_amount # req[h].cp.amount_paid )
        => ( /\ req[h].pc \notin { "add_loaded", "add_saved", "add_created" }
             /\ req[h].ret # "True" )

\* C15: a callback delivered for a purchase that is already 'completed' is
\* reported as a success: complete_purchase returns a success and the
\* callback shows the success message, not the failure one.
C15_DuplicateReportedAsSuccess ==
    \A h \in Handlers :
        ( /\ req[h].kind = "callback"
          /\ req[h].pc = "done"
          /\ req[h].verification = "Completed"
          /\ req[h].cp.payment_status = "completed"
          /\ req[h].ret # "none" )
        => ( /\ req[h].ret = "True"
             /\ CallbackMessage(req[h].ret) = "Credit purchase successful" )

\* C16: over any sequence of add_credits and deduct_credits calls, the
\* account's total_purchased and total_used never decrease.
C16_TotalsNeverDecrease ==
    [][/\ account'.total_purchased >= account.total_purchased
       /\ account'.total_used >= account.total_used]_vars

C16_Witness ==
    /\ Quiet
    /\ account.total_purchased = Rs(100)
    /\ account.total_used = Rs(80)
    /\ Len(ledger) = 2

\* C12: a gateway verification that confirms an amount other than the
\* Transaction's amount does not mark an unpaid Transaction paid: is_paid
\* stays false and payment_status does not become 'completed', on the eSewa
\* path (esewa_success) and on the Khalti path (khalti_payment_verify).
C12_MismatchNotMarkedPaid ==
    [][( /\ nreq' # nreq
         /\ last'.handler \in { "esewa_success", "khalti_payment_verify" }
         /\ txn.exists
         /\ ~txn.is_paid
         /\ txn.payment_status # "completed"
         /\ last'.amt # txn.amount )
       => ( /\ ~txn'.is_paid
            /\ txn'.payment_status # "completed" )]_vars

\* C14: a second delivery of the eSewa callback with the reference and the
\* amount of the one that marked the Transaction paid leaves is_paid,
\* payment_status, payment_completed_at and gateway_response as they were.
C14_SecondDeliveryChangesNothing ==
    [][( /\ nreq' # nreq
         /\ last'.handler = "esewa_success"
         /\ txn.payment_method = "esewa"
         /\ txn.is_paid
         /\ txn.payment_status = "completed"
         /\ txn.gateway_response.refId = last'.ref
         /\ txn.gateway_response.amt = last'.amt )
       => ( /\ txn'.is_paid = txn.is_paid
            /\ txn'.payment_status = txn.payment_status
            /\ txn'.payment_completed_at = txn.payment_completed_at
            /\ txn'.gateway_response = txn.gateway_response )]_vars

\* C17: every save of a stored Transaction leaves collector_commission at
\* amount x 0.10 rounded half-up to the paisa, which for an amount in whole
\* paisa is floor((amount_paisa * 10 + 50) / 100).
C17_CommissionRoundsHalfUp ==
    [][( /\ txn.exists
         /\ txn' # txn )
       => txn'.collector_commission = (txn'.amount * 10 + 50) \div 100]_vars

\* C18: the stored collector_commission of a Transaction is always the one
\* Transaction.save() computes from the stored amount.
C18_CommissionFromStoredAmount ==
    txn.exists => txn.collector_commission = Commission(Loaded(txn.amount))

C20_PriceKeptAfterRateChange ==
    [][( /\ pickup.status = "completed"
         /\ pickup.actual_price # Null
         /\ pickup'.actual_weight_kg = pickup.actual_weight_kg )
       => pickup'.actual_price = pickup.actual_price]_vars

\* C29: an account that starts at balance 0 and is changed only by
\* add_credits and deduct_credits calls made one after another never has a
\* negative current_balance.
C29_BalanceNeverNegative ==
    account.current_balance >= 0

C29_Witness ==
    \E h \in Handlers :
        /\ req[h].kind = "deduct"
        /\ req[h].pc = "done"
        /\ req[h].ret = "True"
        /\ req[h].balance_before = Rs(100)
        /\ account.current_balance = Rs(20)

\* C30: for an account created with zero balance and totals, after any
\* add_credits and deduct_credits calls made one after another, refused ones
\* included, current_balance is total_purchased - total_used.
C30_BalanceIsPurchasedMinusUsed ==
    account.current_balance = account.total_purchased - account.total_used

C30_Witness ==
    \E h \in Handlers :
        /\ req[h].kind = "deduct"
        /\ req[h].pc = "done"
        /\ req[h].ret = "False"
        /\ req[h].amount = Rs(150)
        /\ account.total_purchased = Rs(100)
        /\ account.total_used = 0
        /\ account.current_balance = Rs(100)


\* C21: every completed pickup has completed_at set, and a completed_at that
\* is set is changed by no later step (collector update, admin status
\* update, admin edit, bulk action).
C21_CompletedAtSetOnce ==
    [][ /\ pickup'.status = "completed" => pickup'.completed_at # 0
        /\ pickup.completed_at # 0
              => pickup'.completed_at = pickup.completed_at ]_vars

\* C22: a pickup has an actual_price only if it has an actual weight and its
\* status is 'completed'.
C22_PricedOnlyWhenCompleted ==
    pickup.actual_price # Null
        => pickup.actual_weight_kg # 0 /\ pickup.status = "completed"

\* C23: a step of update_pickup, admin_update_pickup_status or
\* admin_pickup_edit on a pickup that is not completed and has no
\* Transaction leaves both or neither of: the pickup saved as completed with
\* its weight and price, and its Transaction.
C23_CompletionIsAtomic ==
    [][( /\ last'.handler \in { "update_pickup", "admin_update_pickup_status",
                                "admin_pickup_edit" }
         /\ pickup.status # "completed"
         /\ ~txn.exists )
       => ( txn'.exists <=> ( /\ pickup'.status = "completed"
                              /\ pickup'.actual_weight_kg # 0
                              /\ pickup'.actual_price # Null ) )]_vars

\* C24: the Transaction created when a pickup is completed has the pickup's
\* actual_price as amount, payment_method 'cash', payment_status 'completed'
\* and is_paid true, in every completion path.
C24_CreatedTransactionIsPaidCash ==
    [][(~txn.exists /\ txn'.exists)
       => ( /\ txn'.amount = pickup'.actual_price
            /\ txn'.payment_method = "cash"
            /\ txn'.payment_status = "completed"
            /\ txn'.is_paid )]_vars

\* C25: the Transaction of a pickup always has the pickup's current
\* actual_price as its amount.
C25_AmountIsCurrentPrice ==
    txn.exists => txn.amount = pickup.actual_price

\* C26: no request makes a pickup 'completed' without a positive actual
\* weight: a step into 'completed' leaves the pickup with a weight.
C26_NoCompletionWithoutWeight ==
    [][(pickup.exists /\ pickup.status # "completed" /\ pickup'.status = "completed")
       => pickup'.actual_weight_kg # 0]_vars

\* C27: whenever a gateway call of a payment initiation was attempted a
\* PaymentGatewayLog row of that gateway exists: a Khalti initiation that has
\* its answer, and an eSewa initiation that has redirected, is logged.
C27_LogBeforeGatewayCall ==
    /\ \A h \in Handlers :
          ( /\ req[h].kind = "initiate"
            /\ req[h].pc = "done"
            /\ req[h].cp.payment_method = "khalti" )
          => \E i \in 1..Len(gateway_log) : gateway_log[i].gateway_name = "khalti"
    /\ last.result = "esewa_redirect"
          => \E i \in 1..Len(gateway_log) : gateway_log[i].gateway_name = "esewa"


\* C28: a khalti_callback with status 'Completed' for a Khalti Transaction
\* whose lookup succeeded ends with the Transaction paid and reports the
\* payment as completed.
C28_KhaltiCallbackMarksPaid ==
    [][( /\ last'.handler = "khalti_callback"
         /\ last'.amt # 0
         /\ txn.exists
         /\ txn.payment_method = "khalti"
         /\ txn.gateway_transaction_id = last'.ref )
       => ( /\ txn'.is_paid
            /\ txn'.payment_status = "completed"
            /\ last'.result = "Payment completed successfully!" )]_vars

====
